---- MODULE Spec2Model ----
(***************************************************************************)
(* Verification model of the electrochemistry simulations.                 *)
(*                                                                         *)
(* TitrationExperiment.tsx computes with IEEE-754 binary64 numbers.  The   *)
(* volume arithmetic decides which pH formula is selected, so it is        *)
(* modelled bit-exactly: a number is a sign and a magnitude, the magnitude *)
(* an integer held in W limbs of 15 bits (little-endian), every sum,       *)
(* difference and product rounded to 53 significant bits, ties to even.    *)
(* Volumes and concentrations are held in units of 2^-55 (Q55), their      *)
(* products (moles, equilibrium constants, the 1e-9 epsilon) in units of   *)
(* 2^-110 (Q110).  Logarithms are carried in fixed point: log2 with Frac   *)
(* fractional bits, and a pH value in thousandths.                         *)
(***************************************************************************)
EXTENDS Integers, Sequences, FiniteSets, TLC

\* ---------------------------------------------------------------------
\* Bounds of the model
\* ---------------------------------------------------------------------

\* clicks on the +-0.1 and +-1 buttons explored since the volume was last 0
\* (clicks on the +-5 buttons are not limited)
MaxFineClicks == 4

\* getSolutionColor is applied to the pH values 0.0, 0.1, ..., MaxPhTenths / 10
MaxPhTenths == 140

\* tests of a loop condition after which a run of the curve sampler is cut off
MaxIterations == 256

\* frames explored in the galvanic and electroplating cells: no frame is
\* followed once time has reached MaxTicks * ANIMATION_SPEED
MaxTicks == 1010

\* drops explored in the silver mirror: no drop is added once the vial holds
\* MaxDrops drops
MaxDrops == 4

\* ---------------------------------------------------------------------
\* binary64 arithmetic
\* ---------------------------------------------------------------------

W == 8
LimbBits == 15
Base == 32768
Mant == 53
Frac == 12
FracOne == 4096

\* 2^k for k in 0..15
Pow2(k) == <<1, 2, 4, 8, 16, 32, 64, 128, 256, 512, 1024, 2048, 4096, 8192, 16384, 32768>>[k + 1]

BigZero == <<0, 0, 0, 0, 0, 0, 0, 0>>

RECURSIVE AddRec(_, _, _, _)
AddRec(a, b, i, c) ==
    IF i > W THEN <<>>
    ELSE LET s == a[i] + b[i] + c
         IN  <<s % Base>> \o AddRec(a, b, i + 1, s \div Base)

BigAdd(a, b) == AddRec(a, b, 1, 0)

\* a - b for a >= b
RECURSIVE SubRec(_, _, _, _)
SubRec(a, b, i, c) ==
    IF i > W THEN <<>>
    ELSE LET d == a[i] - b[i] - c
         IN  IF d < 0 THEN <<d + Base>> \o SubRec(a, b, i + 1, 1)
                      ELSE <<d>> \o SubRec(a, b, i + 1, 0)

BigSub(a, b) == SubRec(a, b, 1, 0)

RECURSIVE LtRec(_, _, _)
LtRec(a, b, i) ==
    IF i = 0 THEN FALSE
    ELSE IF a[i] # b[i] THEN a[i] < b[i]
    ELSE LtRec(a, b, i - 1)

BigLt(a, b) == LtRec(a, b, W)

\* a times one limb d
RECURSIVE MulLimbRec(_, _, _, _)
MulLimbRec(a, d, i, c) ==
    IF i > W THEN <<>>
    ELSE LET p == a[i] * d + c
         IN  <<p % Base>> \o MulLimbRec(a, d, i + 1, p \div Base)

\* a function on 1..W as the tuple of its W limbs
Limbs(f) == SubSeq(f, 1, W)

ShiftLimbs(a, k) == Limbs([i \in 1..W |-> IF i > k THEN a[i - k] ELSE 0])

RECURSIVE MulRec(_, _, _)
MulRec(a, b, j) ==
    IF j > W THEN BigZero
    ELSE IF b[j] = 0 THEN MulRec(a, b, j + 1)
    ELSE BigAdd(ShiftLimbs(MulLimbRec(a, b[j], 1, 0), j - 1), MulRec(a, b, j + 1))

BigMul(a, b) == MulRec(a, b, 1)

RECURSIVE TopLimb(_, _)
TopLimb(a, i) == IF i = 0 THEN 0 ELSE IF a[i] # 0 THEN i ELSE TopLimb(a, i - 1)

RECURSIVE BitsOf(_)
BitsOf(x) == IF x = 0 THEN 0 ELSE 1 + BitsOf(x \div 2)

BitLen(a) ==
    LET t == TopLimb(a, W)
    IN  IF t = 0 THEN 0 ELSE LimbBits * (t - 1) + BitsOf(a[t])

\* the magnitude with bit k set and all others clear
BigPow2(k) ==
    Limbs([i \in 1..W |-> IF i = (k \div LimbBits) + 1 THEN Pow2(k % LimbBits) ELSE 0])

\* a with its s low bits cleared
ClearLow(a, s) ==
    LET q == (s \div LimbBits) + 1
        p == Pow2(s % LimbBits)
    IN  Limbs([i \in 1..W |-> IF i < q THEN 0
                              ELSE IF i = q THEN (a[i] \div p) * p
                              ELSE a[i]])

BitAt(a, s) == (a[(s \div LimbBits) + 1] \div Pow2(s % LimbBits)) % 2

\* round to nearest, ties to even, keeping Mant significant bits
Round53(a) ==
    LET len == BitLen(a)
    IN  IF len <= Mant THEN a
        ELSE LET s    == len - Mant
                 t    == ClearLow(a, s)
                 rem  == BigSub(a, t)
                 half == BigPow2(s - 1)
                 up   == BigLt(half, rem) \/ (rem = half /\ BitAt(a, s) = 1)
             IN  IF up THEN BigAdd(t, BigPow2(s)) ELSE t

Dbl(n, m) == [neg |-> n, mag |-> m]
DZero == Dbl(FALSE, BigZero)
IsZero(x) == x.mag = BigZero

FNeg(x) == IF IsZero(x) THEN x ELSE Dbl(~x.neg, x.mag)
FAbs(x) == Dbl(FALSE, x.mag)

FAdd(x, y) ==
    IF x.neg = y.neg THEN Dbl(x.neg, Round53(BigAdd(x.mag, y.mag)))
    ELSE IF x.mag = y.mag THEN DZero
    ELSE IF BigLt(y.mag, x.mag) THEN Dbl(x.neg, Round53(BigSub(x.mag, y.mag)))
    ELSE Dbl(y.neg, Round53(BigSub(y.mag, x.mag)))

FSub(x, y) == FAdd(x, FNeg(y))

\* the product of two Q55 numbers, in Q110
FMul(x, y) ==
    LET m == Round53(BigMul(x.mag, y.mag))
    IN  IF m = BigZero THEN DZero ELSE Dbl(x.neg # y.neg, m)

FLt(x, y) ==
    IF x.neg /\ ~y.neg THEN ~(IsZero(x) /\ IsZero(y))
    ELSE IF ~x.neg /\ y.neg THEN FALSE
    ELSE IF x.neg THEN BigLt(y.mag, x.mag)
    ELSE BigLt(x.mag, y.mag)

FMax(x, y) == IF FLt(x, y) THEN y ELSE x
FMin(x, y) == IF FLt(y, x) THEN y ELSE x

\* a * 2^e: the limbs moved up by e bits, or down by -e bits, the bits
\* below the first limb lost
Shift(a, e) ==
    LET s == IF e >= 0 THEN e ELSE -e
        k == s \div LimbBits
        p == Pow2(s % LimbBits)
        q == Pow2(LimbBits - (s % LimbBits))
        at(i) == IF i >= 1 /\ i <= W THEN a[i] ELSE 0
    IN  IF e >= 0
        THEN Limbs([i \in 1..W |-> ((at(i - k) * p) % Base) + (at(i - k - 1) \div q)])
        ELSE Limbs([i \in 1..W |-> (at(i + k) \div p) + (at(i + k + 1) % p) * q])

\* the product of two Q110 numbers, in Q110: the product of the two
\* significands, rounded, and put back at the scale
FMul110(x, y) ==
    IF IsZero(x) \/ IsZero(y) THEN DZero
    ELSE LET LowBit(a) == CHOOSE t \in 0..(W * LimbBits - 1) :
                              BitAt(a, t) = 1 /\ ClearLow(a, t) = a
             tx == LowBit(x.mag)
             ty == LowBit(y.mag)
             m  == Round53(BigMul(Shift(x.mag, -tx), Shift(y.mag, -ty)))
         IN  Dbl(x.neg # y.neg, Shift(m, tx + ty - 110))

\* the product of a number and a small integer
FMulInt(x, n) ==
    LET m == Round53(MulLimbRec(x.mag, n, 1, 0))
    IN  IF m = BigZero THEN DZero ELSE Dbl(x.neg, m)

\* the integer n in Q110
Int110(n) == Dbl(FALSE, <<0, 0, 0, 0, 0, 0, 0, 32 * n>>)

\* At most n steps of the long division by y, which ends when no bit is
\* left to produce: a step doubles the remainder r and takes y from it if
\* it can, which is the next bit of the quotient q.
RECURSIVE DivRun(_, _, _)
DivRun(s, y, n) ==
    IF n = 0 \/ s.left = 0 THEN s
    ELSE IF n = 1 THEN
        LET d   == BigAdd(s.r, s.r)
            bit == ~BigLt(d, y)
        IN  [r    |-> IF bit THEN BigSub(d, y) ELSE d,
             q    |-> BigAdd(BigAdd(s.q, s.q), IF bit THEN BigPow2(0) ELSE BigZero),
             left |-> s.left - 1]
    ELSE CHOOSE r \in {DivRun(h, y, n - n \div 2) : h \in {DivRun(s, y, n \div 2)}} : TRUE

\* The quotient of two Q110 numbers, in Q110, y # 0: both are brought to
\* the same length, 60 bits of the quotient are produced by long division,
\* a last bit records a remainder, and the whole is rounded.
FDiv(x, y) ==
    IF IsZero(x) THEN DZero
    ELSE LET bits == 60
             lx   == BitLen(x.mag)
             ly   == BitLen(y.mag)
             Run(a, b) ==
                 IF BigLt(a, b)
                 THEN DivRun([r |-> a, q |-> BigZero, left |-> bits], b, bits)
                 ELSE DivRun([r |-> BigSub(a, b), q |-> BigPow2(0), left |-> bits], b, bits)
             Rounded(s) ==
                 Round53(BigAdd(BigAdd(s.q, s.q),
                                IF s.r = BigZero THEN BigZero ELSE BigPow2(0)))
         IN  CHOOSE z \in {Dbl(x.neg # y.neg, Shift(m, 110 - (bits + 1) + lx - ly)) :
                          m \in {Rounded(s) :
                                 s \in {Run(a, b) :
                                        a \in {Shift(x.mag, W * LimbBits - 1 - lx)},
                                        b \in {Shift(y.mag, W * LimbBits - 1 - ly)}}}} : TRUE

\* The quotient of a number and a small positive integer: the limbs are
\* divided from the top, c is the remainder carried down; a last bit
\* records a remainder, and the whole is rounded.
RECURSIVE DivLimbRec(_, _, _, _)
DivLimbRec(a, n, i, c) ==
    IF i = 0 THEN [q |-> <<>>, r |-> c]
    ELSE LET p    == c * Base + a[i]
             rest == DivLimbRec(a, n, i - 1, p % n)
         IN  [q |-> Append(rest.q, p \div n), r |-> rest.r]

FDivInt(x, n) ==
    IF IsZero(x) THEN DZero
    ELSE LET up == W * LimbBits - BitLen(x.mag)
             d  == DivLimbRec(Shift(x.mag, up), n, W, 0)
             m  == Round53(IF d.r = 0 THEN d.q ELSE BigAdd(ClearLow(d.q, 1), BigPow2(0)))
         IN  Dbl(x.neg, Shift(m, -up))

\* ---------------------------------------------------------------------
\* Number literals of TitrationExperiment.tsx
\* ---------------------------------------------------------------------

\* Q55
Zero == DZero
Tenth == Dbl(FALSE, <<19661, 6553, 13107, 102, 0, 0, 0, 0>>)    \* 0.1 = 0x1.999999999999ap-4
One == Dbl(FALSE, <<0, 0, 0, 1024, 0, 0, 0, 0>>)
Five == Dbl(FALSE, <<0, 0, 0, 5120, 0, 0, 0, 0>>)
Fifty == Dbl(FALSE, <<0, 0, 0, 18432, 1, 0, 0, 0>>)
Half == Dbl(FALSE, <<0, 0, 0, 512, 0, 0, 0, 0>>)                \* 0.5
TwentyFour == Dbl(FALSE, <<0, 0, 0, 24576, 0, 0, 0, 0>>)
TwentySix == Dbl(FALSE, <<0, 0, 0, 26624, 0, 0, 0, 0>>)

ACID_VOL_INITIAL == Dbl(FALSE, <<0, 0, 0, 25600, 0, 0, 0, 0>>)  \* 25
ACID_CONC == Tenth
BASE_CONC == Tenth

\* Q110
KA_ACETIC == Dbl(FALSE, <<0, 0, 28672, 5479, 9523, 28651, 18, 0>>)   \* 1.8e-5 = 0x1.2dfd694ccab3fp-16
KB_AMMONIA == Dbl(FALSE, <<0, 0, 28672, 5479, 9523, 28651, 18, 0>>)  \* 1.8e-5
KW == Dbl(FALSE, <<22528, 4793, 28884, 8486, 11, 0, 0, 0>>)          \* 1e-14 = 0x1.6849b86a12b9bp-47
Epsilon == Dbl(FALSE, <<0, 8192, 13733, 29715, 11787, 34, 0, 0>>)    \* 1e-9 = 0x1.12e0be826d695p-30

\* ---------------------------------------------------------------------
\* Logarithms in fixed point
\* ---------------------------------------------------------------------

\* the 15 leading bits of a nonzero magnitude
Top15(a) ==
    LET t  == TopLimb(a, W)
        bl == BitsOf(a[t])
        lo == IF t = 1 THEN 0 ELSE a[t - 1] \div Pow2(bl)
    IN  a[t] * Pow2(LimbBits - bl) + lo

\* fractional bits of log2 of m / 2^14, for m in [2^14, 2^15), by repeated squaring
RECURSIVE FracLog(_, _, _)
FracLog(m, n, acc) ==
    IF n = 0 THEN acc
    ELSE LET m2 == m * m
         IN  IF m2 >= 536870912
             THEN FracLog(m2 \div 32768, n - 1, 2 * acc + 1)
             ELSE FracLog(m2 \div 16384, n - 1, 2 * acc)

\* log2 of the integer a > 0, times FracOne
Log2Fix(a) == (BitLen(a) - 1) * FracOne + FracLog(Top15(a), Frac, 0)

\* A real number under a logarithm: its sign class and, when positive, its log2
Pos(l) == [k |-> "pos", l |-> l]
Cls(c) == [k |-> c, l |-> 0]

\* the number x held in units of 2^-scale
Lg(x, scale) ==
    IF IsZero(x) THEN Cls("zero")
    ELSE IF x.neg THEN Cls("neg")
    ELSE Pos(Log2Fix(x.mag) - scale * FracOne)

\* p * q
LMul(p, q) ==
    IF p.k = "nan" \/ q.k = "nan" THEN Cls("nan")
    ELSE IF p.k = "pos" /\ q.k = "pos" THEN Pos(p.l + q.l)
    ELSE IF p.k = "zero" \/ q.k = "zero"
         THEN (IF p.k \in {"inf", "ninf"} \/ q.k \in {"inf", "ninf"} THEN Cls("nan") ELSE Cls("zero"))
    ELSE IF p.k \in {"inf", "ninf"} \/ q.k \in {"inf", "ninf"}
         THEN (IF (p.k \in {"neg", "ninf"}) # (q.k \in {"neg", "ninf"}) THEN Cls("ninf") ELSE Cls("inf"))
    ELSE IF p.k = q.k THEN Cls("nan") ELSE Cls("neg")

\* p / q
LDiv(p, q) ==
    IF p.k = "nan" \/ q.k = "nan" THEN Cls("nan")
    ELSE IF p.k = "pos" /\ q.k = "pos" THEN Pos(p.l - q.l)
    ELSE IF q.k = "zero"
         THEN (IF p.k = "zero" THEN Cls("nan")
               ELSE IF p.k \in {"neg", "ninf"} THEN Cls("ninf") ELSE Cls("inf"))
    ELSE IF q.k \in {"inf", "ninf"}
         THEN (IF p.k \in {"inf", "ninf"} THEN Cls("nan") ELSE Cls("zero"))
    ELSE IF p.k = "zero" THEN Cls("zero")
    ELSE IF p.k \in {"inf", "ninf"}
         THEN (IF (p.k = "ninf") # (q.k = "neg") THEN Cls("ninf") ELSE Cls("inf"))
    ELSE IF p.k = q.k THEN Cls("nan") ELSE Cls("neg")

\* the square root left out
LSqrt_identity(p) == p
\* Math.sqrt
LSqrt(p) ==
    IF p.k = "pos" THEN Pos((p.l - (p.l % 2)) \div 2)
    ELSE IF p.k \in {"zero", "inf"} THEN p
    ELSE Cls("nan")

\* A JavaScript number carrying a pH: finite, in thousandths, or not finite
Fin(m) == [k |-> "fin", m |-> m]
NotFin(c) == [k |-> c, m |-> 0]

\* 1000 * log10(2) * l / FracOne, rounded to the nearest thousandth
Milli(l) ==
    LET a == IF l < 0 THEN -l ELSE l
        t == (a * 301 + (a * 3) \div 100 + FracOne \div 2) \div FracOne
    IN  IF l < 0 THEN -t ELSE t

\* Math.log10
Log10(p) ==
    IF p.k = "pos" THEN Fin(Milli(p.l))
    ELSE IF p.k = "zero" THEN NotFin("-Infinity")
    ELSE IF p.k = "inf" THEN NotFin("Infinity")
    ELSE NotFin("NaN")

NumNeg(a) ==
    IF a.k = "fin" THEN Fin(-a.m)
    ELSE IF a.k = "Infinity" THEN NotFin("-Infinity")
    ELSE IF a.k = "-Infinity" THEN NotFin("Infinity")
    ELSE a

NumAdd(a, b) ==
    IF a.k = "fin" /\ b.k = "fin" THEN Fin(a.m + b.m)
    ELSE IF a.k = "NaN" \/ b.k = "NaN" THEN NotFin("NaN")
    ELSE IF a.k = "fin" THEN b
    ELSE IF b.k = "fin" \/ a.k = b.k THEN a
    ELSE NotFin("NaN")

NumSub(a, b) == NumAdd(a, NumNeg(b))

\* a / 2
NumHalf(a) == IF a.k = "fin" THEN Fin((a.m - (a.m % 2)) \div 2) ELSE a

\* a < b
NumLt(a, b) ==
    IF a.k = "NaN" \/ b.k = "NaN" THEN FALSE
    ELSE IF a.k = "fin" /\ b.k = "fin" THEN a.m < b.m
    ELSE IF a.k = b.k THEN FALSE
    ELSE a.k = "-Infinity" \/ b.k = "Infinity"

\* a <= b
NumLe(a, b) == NumLt(a, b) \/ (a.k # "NaN" /\ a = b)

IndicatorType == {"phenolphthalein", "methylRed", "bromothymolBlue"}
ElectrolyteType == {"strong", "weak"}

\* ---------------------------------------------------------------------
\* calculatePH
\* ---------------------------------------------------------------------

molesA == FMul(ACID_VOL_INITIAL, ACID_CONC)
molesB(vBase) == FMul(vBase, BASE_CONC)
\* the volume of base left out of the total
totalVol_acidOnly(vBase) == ACID_VOL_INITIAL
totalVol(vBase) == FAdd(ACID_VOL_INITIAL, vBase)

\* the guards of the regions
\* the test for the initial state left out
isInitial_never(vBase) == FALSE
isInitial(vBase) == IsZero(vBase)
isBelow(mB) == FLt(mB, molesA)
\* the test for the equivalence point left out
isNear_never(mB) == FALSE
isNear(mB) == FLt(FAbs(FSub(mB, molesA)), Epsilon)
\* the operands of the last guard exchanged
isAbove_swapped(mB) == FLt(mB, molesA)
isAbove(mB) == FLt(molesA, mB)

\* The return statement calculatePH leaves by, named by its source line
ReturnSite(vBase, aType, bType) ==
    LET mB == molesB(vBase)
    IN  IF aType = "strong" /\ bType = "strong" THEN
            IF isBelow(mB) THEN "L77"
            ELSE IF isNear(mB) THEN "L79"
            ELSE "L82"
        ELSE IF aType = "weak" /\ bType = "strong" THEN
            IF isInitial(vBase) THEN "L91"
            ELSE IF isBelow(mB) THEN "L98"
            ELSE IF isNear(mB) THEN "L108"
            ELSE IF isAbove(mB) THEN "L114"
            ELSE "L171"
        ELSE IF aType = "strong" /\ bType = "weak" THEN
            IF isInitial(vBase) THEN "L122"
            ELSE IF isBelow(mB) THEN "L127"
            ELSE IF isNear(mB) THEN "L136"
            ELSE IF isAbove(mB) THEN "L145"
            ELSE "L171"
        ELSE IF aType = "weak" /\ bType = "weak" THEN
            IF isInitial(vBase) THEN "L155"
            ELSE IF isBelow(mB) THEN "L159"
            ELSE IF isNear(mB) THEN "L163"
            ELSE IF isAbove(mB) THEN "L167"
            ELSE "L171"
        ELSE "L171"

\* The argument of the Math.log10 call of a return statement that depends
\* on the volume; the statements at L79, L163 and L171 make no such call.
LogArg(at, vBase) ==
    LET mB         == molesB(vBase)
        total      == Lg(totalVol(vBase), 55)
        acidLeft   == Lg(FSub(molesA, mB), 110)
        baseExcess == Lg(FSub(mB, molesA), 110)
    IN  CASE at \in {"L77", "L127"} -> LDiv(acidLeft, total)
          [] at \in {"L82", "L114"} -> LDiv(baseExcess, total)
          [] at \in {"L91", "L155"} -> LSqrt(LMul(Lg(KA_ACETIC, 110), Lg(ACID_CONC, 55)))
          [] at \in {"L98", "L159"} -> LDiv(Lg(mB, 110), acidLeft)
          [] at = "L108" ->
                LSqrt(LMul(LDiv(Lg(KW, 110), Lg(KA_ACETIC, 110)), LDiv(Lg(molesA, 110), total)))
          [] at = "L122" -> Lg(ACID_CONC, 55)
          [] at = "L136" ->
                LSqrt(LMul(LDiv(Lg(KW, 110), Lg(KB_AMMONIA, 110)), LDiv(Lg(molesA, 110), total)))
          [] at \in {"L145", "L167"} -> LDiv(baseExcess, Lg(molesA, 110))
          [] OTHER -> Pos(0)

pKa == NumNeg(Log10(Lg(KA_ACETIC, 110)))
pKaNH4 == NumSub(Fin(14000), NumNeg(Log10(Lg(KB_AMMONIA, 110))))

\* the weak base past equivalence buffered around pKa instead of pKaNH4
ReturnValue_weakWeakPKa(at, arg) ==
    CASE at \in {"L77", "L91", "L122", "L127", "L136", "L155"} -> NumNeg(Log10(arg))
      [] at \in {"L82", "L108", "L114"} -> NumSub(Fin(14000), NumNeg(Log10(arg)))
      [] at \in {"L98", "L159", "L167"} -> NumAdd(pKa, Log10(arg))
      [] at = "L145" -> NumAdd(pKaNH4, Log10(arg))
      [] at = "L163" -> NumHalf(NumAdd(pKa, pKaNH4))
      [] OTHER -> Fin(7000)

\* The value returned at a return statement whose Math.log10 has argument arg
ReturnValue(at, arg) ==
    CASE at \in {"L77", "L91", "L122", "L127", "L136", "L155"} -> NumNeg(Log10(arg))
      [] at \in {"L82", "L108", "L114"} -> NumSub(Fin(14000), NumNeg(Log10(arg)))
      [] at \in {"L98", "L159"} -> NumAdd(pKa, Log10(arg))
      [] at \in {"L145", "L167"} -> NumAdd(pKaNH4, Log10(arg))
      [] at = "L163" -> NumHalf(NumAdd(pKa, pKaNH4))
      [] OTHER -> Fin(7000)

calculatePH(vBase, aType, bType) ==
    LET at == ReturnSite(vBase, aType, bType)
    IN  ReturnValue(at, LogArg(at, vBase))

\* The return statement getExplanation leaves by, named by its source line
getExplanation(vol, aType, bType) ==
    LET isEq   == FLt(FAbs(FSub(vol, ACID_VOL_INITIAL)), Tenth)
        isPre  == FLt(vol, ACID_VOL_INITIAL)
        isPost == FLt(ACID_VOL_INITIAL, vol)
        first  == IF aType = "strong" /\ bType = "strong" THEN 206
                  ELSE IF aType = "weak" /\ bType = "strong" THEN 230
                  ELSE IF aType = "strong" /\ bType = "weak" THEN 254
                  ELSE 276
    IN  IF first = 276 THEN 276
        ELSE IF IsZero(vol) THEN first
        ELSE IF isPre THEN first + 5
        ELSE IF isEq THEN first + 10
        ELSE IF isPost THEN first + 15
        ELSE 276

\* ---------------------------------------------------------------------
\* INDICATORS and getSolutionColor
\* ---------------------------------------------------------------------

INDICATORS ==
    [phenolphthalein |-> [rangeLow |-> Fin(8200), rangeHigh |-> Fin(10000),
                          colorLow |-> "#ffffff", colorHigh |-> "#ec4899"],
     methylRed       |-> [rangeLow |-> Fin(4400), rangeHigh |-> Fin(6200),
                          colorLow |-> "#ef4444", colorHigh |-> "#eab308"],
     bromothymolBlue |-> [rangeLow |-> Fin(6000), rangeHigh |-> Fin(7600),
                          colorLow |-> "#eab308", colorHigh |-> "#3b82f6"]]

\* ph < low,  ph > high
isLow(p, low) == NumLt(p, low)
\* ph >= high,  ph < high
isHigh_inclusive(p, high) == NumLe(high, p)
isHigh_reversed(p, high) == NumLt(p, high)
isHigh(p, high) == NumLt(high, p)

getSolutionColor(p, t) ==
    LET ind == INDICATORS[t]
    IN  IF isLow(p, ind.rangeLow) THEN "#f1f5f9"
        ELSE IF t = "phenolphthalein" THEN
            IF isLow(p, Fin(8200)) THEN "#f8fafc"
            ELSE IF isHigh(p, Fin(10000)) THEN "#ec4899"
            ELSE "#fbcfe8"
        ELSE IF t = "methylRed" THEN
            IF isLow(p, Fin(4400)) THEN "#ef4444"
            ELSE IF isHigh(p, Fin(6200)) THEN "#eab308"
            ELSE "#f97316"
        ELSE IF t = "bromothymolBlue" THEN
            IF isLow(p, Fin(6000)) THEN "#eab308"
            ELSE IF isHigh(p, Fin(7600)) THEN "#3b82f6"
            ELSE "#22c55e"
        ELSE "#f1f5f9"

\* ---------------------------------------------------------------------
\* graphPoints: the loops that sample the titration curve
\* ---------------------------------------------------------------------

\* v <= 50,  v < 50
outerContinues_exclusive(v) == FLt(v, Fifty)
outerContinues(v) == ~FLt(Fifty, v)

\* v > 24 && v < 26
inWindow(v) == FLt(TwentyFour, v) /\ FLt(v, TwentySix)

\* fineV < v + 0.5
innerContinues(fineV, v) == FLt(fineV, FAdd(v, Half))

\* { v, ph: calculatePH(v, state.acidType, state.baseType) }
Point(v, aType, bType) == [v |-> v, ph |-> calculatePH(v, aType, bType)]

\* The callback between two tests of a loop condition.  pc is the loop whose
\* condition is tested next; fineV exists only inside the inner loop.
NotSampling == [pc |-> "idle", v |-> Zero, fineV |-> Zero, points |-> <<>>]

\* const points = [];  let v = 0
sampleEnter == [pc |-> "outer", v |-> Zero, fineV |-> Zero, points |-> <<>>]

sampleIteration(s, aType, bType) ==
    IF s.pc = "outer" THEN
        IF ~outerContinues(s.v) THEN [s EXCEPT !.pc = "done"]
        ELSE IF inWindow(s.v) THEN [s EXCEPT !.pc = "inner", !.fineV = s.v]
        ELSE [s EXCEPT !.points = Append(@, Point(s.v, aType, bType)),
                       !.v = FAdd(s.v, Half)]
    ELSE
        IF innerContinues(s.fineV, s.v)
        THEN [s EXCEPT !.points = Append(@, Point(s.fineV, aType, bType)),
                       !.fineV = FAdd(s.fineV, Tenth)]
        ELSE [s EXCEPT !.pc = "outer", !.fineV = Zero, !.v = FAdd(s.v, Half)]

\* the callback run from s for n tests of a loop condition, or up to its return
RECURSIVE sampleRun(_, _, _, _)
sampleRun(s, aType, bType, n) ==
    IF n = 0 \/ s.pc = "done" THEN s
    ELSE IF n = 1 THEN sampleIteration(s, aType, bType)
    ELSE CHOOSE r \in {sampleRun(h, aType, bType, n - n \div 2) :
                           h \in {sampleRun(s, aType, bType, n \div 2)}} : TRUE

\* what the callback returns
sampleResult(aType, bType) == sampleRun(sampleEnter, aType, bType, MaxIterations).points

\* the curve of each pair of strengths
graphCurves ==
    [strong |-> [strong |-> sampleResult("strong", "strong"),
                 weak   |-> sampleResult("strong", "weak")],
     weak   |-> [strong |-> sampleResult("weak", "strong"),
                 weak   |-> sampleResult("weak", "weak")]]

sampleCurve(aType, bType) == graphCurves[aType][bType]

\* the six step buttons
Amounts == {Tenth, One, Five, FNeg(Tenth), FNeg(One), FNeg(Five)}

\* the pH values getSolutionColor is applied to on its own: 0.0, 0.1, ...
PhInputs == {Fin(100 * n) : n \in 0..MaxPhTenths}

\* ---------------------------------------------------------------------
\* State
\* ---------------------------------------------------------------------

VARIABLES
    addedBaseVol, indicator, acidType, baseType,   \* TitrationState
    memoizedState,                                 \* the state the useMemo callback last ran in
    fineClicks,                                    \* +-0.1 and +-1 clicks since the volume was last 0
    ph, type, color,                               \* a call of getSolutionColor and its result
    sampler,                                       \* a run of the useMemo callback, loop by loop
    lastResult,                                    \* what the previous run of the callback returned
    component,                                     \* the animated component that is followed
    isPlaying, time, progress,                     \* its state
    requestRef,                                    \* requestRef.current
    pending,                                       \* the browser's list of animation frame callbacks
    effectDue,                                     \* the effect of the last render has not run yet
    drops, isCapped, shakeSpeed,                   \* the state of SilverMirrorReaction
    reactionProgress, warning

titration == <<addedBaseVol, indicator, acidType, baseType, memoizedState, fineClicks>>
call == <<ph, type, color>>
sampling == <<sampler, lastResult>>
mirror == <<drops, isCapped, shakeSpeed, reactionProgress, warning>>
animation == <<component, isPlaying, time, progress, requestRef, pending, effectDue, mirror>>
vars == <<addedBaseVol, indicator, acidType, baseType, memoizedState, fineClicks,
          ph, type, color, sampler, lastResult,
          component, isPlaying, time, progress, requestRef, pending, effectDue,
          drops, isCapped, shakeSpeed, reactionProgress, warning>>

\* values derived from the state on every render
\* the value useMemo returns: the callback reads nothing but the two
\* strengths, so what it returned is the curve of the strengths it ran with
graphPoints == sampleCurve(memoizedState.acidType, memoizedState.baseType)
currentPH == calculatePH(addedBaseVol, acidType, baseType)
currentColor == getSolutionColor(currentPH, indicator)

InitTitration ==
    /\ addedBaseVol = Zero
    /\ indicator = "phenolphthalein"
    /\ acidType = "strong"
    /\ baseType = "strong"
    /\ memoizedState = [acidType |-> acidType, baseType |-> baseType]
    /\ fineClicks = 0

NoCall ==
    /\ ph = Fin(0)
    /\ type = "phenolphthalein"
    /\ color = "none"

NoResult == [acidType |-> "none", baseType |-> "none", points |-> <<>>]

NoSampling ==
    /\ sampler = NotSampling
    /\ lastResult = NoResult

NoDrops == [A |-> 0, B |-> 0, C |-> 0, D |-> 0]

\* a component as it is mounted: useState(false), useState(0), useRef(0),
\* and in the silver mirror useState({ A: 0, B: 0, C: 0, D: 0 }),
\* useState(false), useState(0), useState(0), useState(null)
Mounted(c) ==
    /\ component = c
    /\ isPlaying = FALSE
    /\ time = Zero
    /\ progress = Zero
    /\ requestRef = 0
    /\ pending = {}
    /\ drops = NoDrops
    /\ isCapped = FALSE
    /\ shakeSpeed = 0
    /\ reactionProgress = Zero
    /\ warning = "none"

\* the galvanic cell after its first effect, which requests nothing
NoAnimation == Mounted("GalvanicCell") /\ effectDue = FALSE

Init == InitTitration /\ NoCall /\ NoSampling /\ NoAnimation

\* ---------------------------------------------------------------------
\* TitrationExperiment: handlers
\* ---------------------------------------------------------------------

\* the dependencies [state.acidType, state.baseType] of useMemo
\* state.baseType left out of the dependencies
depsChanged_acidOnly == acidType' # acidType
depsChanged == <<acidType', baseType'>> # <<acidType, baseType>>

\* the render that follows a change of state: useMemo runs its callback,
\* with the new state, when a dependency has changed and returns the memoised
\* value otherwise
useMemo ==
    memoizedState' = IF depsChanged THEN [acidType |-> acidType', baseType |-> baseType']
                                    ELSE memoizedState

\* the upper clamp left out
ClampVolume_noMin(prev, amount) == FMax(Zero, FAdd(prev, amount))
\* Math.max(0, Math.min(prev.addedBaseVol + amount, 50))
ClampVolume(prev, amount) == FMax(Zero, FMin(FAdd(prev, amount), Fifty))

\* what a click counts for the bound of the exploration
Fine(amount) == IF amount.mag = Five.mag THEN 0 ELSE 1

addVolume(amount) ==
    /\ fineClicks + Fine(amount) <= MaxFineClicks
    /\ addedBaseVol' = ClampVolume(addedBaseVol, amount)
    /\ fineClicks' = IF IsZero(addedBaseVol') THEN 0 ELSE fineClicks + Fine(amount)
    /\ UNCHANGED <<indicator, acidType, baseType>>
    /\ useMemo
    /\ UNCHANGED call
    /\ UNCHANGED sampling
    /\ UNCHANGED animation

reset ==
    /\ addedBaseVol' = Zero
    /\ fineClicks' = 0
    /\ UNCHANGED <<indicator, acidType, baseType>>
    /\ useMemo
    /\ UNCHANGED call
    /\ UNCHANGED sampling
    /\ UNCHANGED animation

\* the volume kept across a change of acid
setAcidType_keepsVolume(t) ==
    /\ t # acidType
    /\ acidType' = t
    /\ UNCHANGED <<addedBaseVol, fineClicks, indicator, baseType>>
    /\ useMemo
    /\ UNCHANGED call
    /\ UNCHANGED sampling
    /\ UNCHANGED animation

\* onChange of the acid select
setAcidType(t) ==
    /\ t # acidType
    /\ acidType' = t
    /\ addedBaseVol' = Zero
    /\ fineClicks' = 0
    /\ UNCHANGED <<indicator, baseType>>
    /\ useMemo
    /\ UNCHANGED call
    /\ UNCHANGED sampling
    /\ UNCHANGED animation

\* onChange of the base select
setBaseType(t) ==
    /\ t # baseType
    /\ baseType' = t
    /\ addedBaseVol' = Zero
    /\ fineClicks' = 0
    /\ UNCHANGED <<indicator, acidType>>
    /\ useMemo
    /\ UNCHANGED call
    /\ UNCHANGED sampling
    /\ UNCHANGED animation

\* onChange of the indicator select
setIndicator(t) ==
    /\ t # indicator
    /\ indicator' = t
    /\ UNCHANGED <<addedBaseVol, acidType, baseType, fineClicks>>
    /\ useMemo
    /\ UNCHANGED call
    /\ UNCHANGED sampling
    /\ UNCHANGED animation

Next ==
    \/ \E amount \in Amounts : addVolume(amount)
    \/ reset
    \/ \E t \in ElectrolyteType : setAcidType(t)
    \/ \E t \in ElectrolyteType : setBaseType(t)
    \/ \E t \in IndicatorType : setIndicator(t)

Spec == Init /\ [][Next]_vars

\* ---------------------------------------------------------------------
\* calculatePH on its own: the handlers that change one of its arguments
\* ---------------------------------------------------------------------

NextPH ==
    \/ \E amount \in Amounts : addVolume(amount)
    \/ reset
    \/ \E t \in ElectrolyteType : setAcidType(t)
    \/ \E t \in ElectrolyteType : setBaseType(t)

SpecPH == Init /\ [][NextPH]_vars

\* ---------------------------------------------------------------------
\* getSolutionColor on its own
\* ---------------------------------------------------------------------

InitColor ==
    /\ InitTitration
    /\ ph \in PhInputs
    /\ type \in IndicatorType
    /\ color = "none"
    /\ NoSampling
    /\ NoAnimation

resolveColor ==
    /\ color = "none"
    /\ color' = getSolutionColor(ph, type)
    /\ UNCHANGED <<ph, type>>
    /\ UNCHANGED titration
    /\ UNCHANGED sampling
    /\ UNCHANGED animation

NextColor == resolveColor

SpecColor == InitColor /\ [][NextColor]_vars

\* ---------------------------------------------------------------------
\* The curve sampler on its own, one test of a loop condition per step
\* ---------------------------------------------------------------------

InitCurve ==
    /\ addedBaseVol = Zero
    /\ indicator = "phenolphthalein"
    /\ acidType \in ElectrolyteType
    /\ baseType \in ElectrolyteType
    /\ memoizedState = [acidType |-> acidType, baseType |-> baseType]
    /\ fineClicks = 0
    /\ NoCall
    /\ NoSampling
    /\ NoAnimation

\* the array of points kept from one call to the next
sampleStart_keepsPoints ==
    /\ sampler.pc = "idle"
    /\ sampler' = [sampleEnter EXCEPT !.points = lastResult.points]
    /\ UNCHANGED <<lastResult, titration, call>>
    /\ UNCHANGED animation

\* the callback is entered
sampleStart ==
    /\ sampler.pc = "idle"
    /\ sampler' = sampleEnter
    /\ UNCHANGED <<lastResult, titration, call>>
    /\ UNCHANGED animation

\* one test of a loop condition and the statements it leads to
sampleStep ==
    /\ sampler.pc \in {"outer", "inner"}
    /\ sampler' = sampleIteration(sampler, acidType, baseType)
    /\ UNCHANGED <<lastResult, titration, call>>
    /\ UNCHANGED animation

\* return points
sampleReturn ==
    /\ sampler.pc = "done"
    /\ lastResult' = [acidType |-> acidType, baseType |-> baseType, points |-> sampler.points]
    /\ sampler' = NotSampling
    /\ UNCHANGED <<titration, call>>
    /\ UNCHANGED animation

NextCurve == sampleStart \/ sampleStep \/ sampleReturn

SpecCurve == InitCurve /\ [][NextCurve]_vars

\* The sampler called again and again, the volume and the indicator changing
\* between the calls
NextCalls ==
    \/ sampleStart
    \/ sampleStep
    \/ sampleReturn
    \/ (sampler.pc = "idle" /\ addVolume(Five))
    \/ (sampler.pc = "idle" /\ reset)
    \/ (sampler.pc = "idle" /\ \E t \in IndicatorType : setIndicator(t))

SpecCalls == InitCurve /\ [][NextCalls]_vars

\* ---------------------------------------------------------------------
\* The animated components: GalvanicCell, ElectroplatingCell,
\* DisplacementReaction and SilverMirrorReaction.  Their numbers are held in
\* units of 2^-110.
\*
\* A handler or a frame callback that changes the state is followed at once
\* by the render of the new state.  The effect of a render runs later, in a
\* step of its own, and at the latest before the next render; it is preceded
\* by the cleanup that the previous run of the effect returned.
\* ---------------------------------------------------------------------

\* the two components that advance time
Cells == {"GalvanicCell", "ElectroplatingCell"}

\* 0.002 = 0x1.0624dd2f1a9fcp-9 in both cells, 0.0015 = 0x1.89374bc6a7efap-10
ANIMATION_SPEED(c) ==
    IF c = "DisplacementReaction"
    THEN Dbl(FALSE, <<0, 0, 0, 30672, 18087, 28311, 1572, 0>>)
    ELSE Dbl(FALSE, <<0, 0, 0, 8128, 24117, 4980, 2097, 0>>)

\* the values the cells derive from time on every render:
\* Math.min(time * 15, 30) in the galvanic cell, Math.min(time * 10, 15) in
\* the electroplating cell, and the width Math.max(10, 40 - deformation) of
\* the electrode that shrinks
\* Math.min left out
deformation_noMin(c, t) == FMulInt(t, IF c = "GalvanicCell" THEN 15 ELSE 10)
deformation(c, t) ==
    IF c = "GalvanicCell" THEN FMin(FMulInt(t, 15), Int110(30))
    ELSE FMin(FMulInt(t, 10), Int110(15))
anodeWidth(c, t) == FMax(Int110(10), FSub(Int110(40), deformation(c, t)))

\* the values the silver mirror derives from its drops on every render;
\* 1.2 = 0x1.3333333333333p+0, 0.1 = 0x1.999999999999ap-4
totalDrops(d) == d.A + d.B + d.C + d.D
hasReactantsForPpt(d) == d.A > 0 /\ d.B > 0
neededAmmonia(d) == FMulInt(Dbl(FALSE, <<0, 0, 0, 24576, 19660, 6553, 13107, 38>>), d.A)
ammoniaRatio(d) ==
    IF FLt(Zero, neededAmmonia(d))
    THEN FMin(FDiv(Int110(d.C), neededAmmonia(d)), Int110(1))
    ELSE Int110(1)
baseTurbidity(d) ==
    IF hasReactantsForPpt(d)
    THEN FDivInt(Int110(IF d.A < d.B THEN d.A ELSE d.B), 10)
    ELSE Zero
turbidity(d) == FMax(Zero, FMul110(baseTurbidity(d), FSub(Int110(1), ammoniaRatio(d))))
isCloudy(d) == FLt(Dbl(FALSE, <<0, 0, 0, 13312, 26214, 19660, 6553, 3>>), turbidity(d))

\* isCloudy for every vial of up to MaxDrops drops of each of A, B and C,
\* computed once: the vial with a, b and c drops is at 1 + a + n * (b + n * c)
isCloudyTable ==
    LET n == MaxDrops + 1
    IN  SubSeq([i \in 1..(n * n * n) |->
                   isCloudy([A |-> (i - 1) % n, B |-> ((i - 1) \div n) % n,
                             C |-> (i - 1) \div (n * n), D |-> 0])],
               1, n * n * n)

isClearComplex(d) ==
    LET n == MaxDrops + 1
    IN  hasReactantsForPpt(d) /\ ~isCloudyTable[1 + d.A + n * (d.B + n * d.C)]
canReact(d) == isClearComplex(d) /\ d.D > 0

\* the state of the silver mirror and the values animate closes over; the
\* animate of the other components closes over nothing
mirrorState ==
    [drops |-> drops, isCapped |-> isCapped, shakeSpeed |-> shakeSpeed,
     reactionProgress |-> reactionProgress, warning |-> warning]

closure(m) ==
    [shakeSpeed |-> m.shakeSpeed, isCapped |-> m.isCapped,
     canReact |-> canReact(m.drops), totalDrops |-> totalDrops(m.drops),
     reactionProgress |-> m.reactionProgress, warning |-> m.warning]

\* The browser's side of requestAnimationFrame and the ref that holds the
\* handle: w is [pending, requestRef].  A handle is a positive number; the
\* numbers are reused here: a new handle is the least number that no
\* callback still to be run holds.  Every handle that is handed out is
\* stored in requestRef.current at once.
\* requestRef.current = requestAnimationFrame(callback), while the callbacks
\* with the handles in running are still to be run in this frame
requestAnimationFrame(w, callback, running) ==
    LET used == {cb.id : cb \in w.pending} \cup running
        free == {h \in 1..(Cardinality(used) + 1) : h \notin used}
        new  == CHOOSE h \in free : \A g \in free : h <= g
    IN  [pending |-> w.pending \cup {[id |-> new, animate |-> callback]}, requestRef |-> new]

cancelAnimationFrame(w) == [w EXCEPT !.pending = {cb \in @ : cb.id # w.requestRef}]

\* the function returned by the effect: in the cells and the displacement
\* reaction, if (requestRef.current) cancelAnimationFrame(requestRef.current)
cleanup_cancelsNothing(w) == w
cleanup(w) ==
    IF component = "SilverMirrorReaction" \/ w.requestRef # 0
    THEN cancelAnimationFrame(w)
    ELSE w

\* the body of the effect, in the state that was rendered
\* isPlaying not looked at
effect_alwaysRequests(w) == requestAnimationFrame(w, closure(mirrorState), {})
effect(w) ==
    IF \/ component = "SilverMirrorReaction"
       \/ component \in Cells /\ isPlaying
       \/ component = "DisplacementReaction" /\ isPlaying /\ FLt(progress, Int110(1))
    THEN requestAnimationFrame(w, closure(mirrorState), {})
    ELSE IF w.requestRef # 0 THEN cancelAnimationFrame(w)
    ELSE w

runEffect(w) == effect(cleanup(w))

\* the effect that is due runs before the next render
flushed ==
    LET w == [pending |-> pending, requestRef |-> requestRef]
    IN  IF effectDue THEN runEffect(w) ELSE w

\* the effect runs on its own
flushEffects ==
    /\ effectDue
    /\ pending' = flushed.pending
    /\ requestRef' = flushed.requestRef
    /\ effectDue' = FALSE
    /\ UNCHANGED <<component, isPlaying, time, progress, mirror>>
    /\ UNCHANGED <<titration, call, sampling>>

\* onClick={() => setIsPlaying(!isPlaying)}; disabled={progress >= 1}
togglePlaying ==
    /\ component \in Cells \/ (component = "DisplacementReaction" /\ FLt(progress, Int110(1)))
    /\ isPlaying' = ~isPlaying
    /\ pending' = flushed.pending
    /\ requestRef' = flushed.requestRef
    /\ effectDue' = TRUE
    /\ UNCHANGED <<component, time, progress, mirror>>
    /\ UNCHANGED <<titration, call, sampling>>

\* onClick={() => setTime(0)}
resetTime ==
    /\ component \in Cells
    /\ ~IsZero(time)
    /\ time' = Zero
    /\ pending' = flushed.pending
    /\ requestRef' = flushed.requestRef
    /\ effectDue' = FALSE
    /\ UNCHANGED <<component, isPlaying, progress, mirror>>
    /\ UNCHANGED <<titration, call, sampling>>

\* onClick={() => setProgress(0)}
resetProgress ==
    /\ component = "DisplacementReaction"
    /\ ~IsZero(progress)
    /\ progress' = Zero
    /\ pending' = flushed.pending
    /\ requestRef' = flushed.requestRef
    /\ effectDue' = TRUE
    /\ UNCHANGED <<component, isPlaying, time, mirror>>
    /\ UNCHANGED <<titration, call, sampling>>

\* the render of the silver mirror in the state m: the effect runs again
\* when animate is a new function, which it is when one of the values it
\* closes over has changed
renderMirror(m, w) ==
    /\ drops' = m.drops
    /\ isCapped' = m.isCapped
    /\ shakeSpeed' = m.shakeSpeed
    /\ reactionProgress' = m.reactionProgress
    /\ warning' = m.warning
    /\ pending' = w.pending
    /\ requestRef' = w.requestRef
    /\ effectDue' = (closure(m) # closure(mirrorState))
    /\ UNCHANGED <<component, isPlaying, time, progress>>
    /\ UNCHANGED <<titration, call, sampling>>

\* The clicks that are followed: reagents are added before the reaction has
\* begun or after it is complete, and the cap and the slider are used while
\* reactionProgress is within one of either end of its range.  Reset is
\* pressed at any time.
\* isCapped not looked at
addDrop_ignoresCap(t) ==
    /\ component = "SilverMirrorReaction"
    /\ totalDrops(drops) < MaxDrops
    /\ IsZero(reactionProgress) \/ ~FLt(reactionProgress, Int110(100))
    /\ renderMirror([mirrorState EXCEPT !.warning = "none", !.drops[t] = @ + 1], flushed)
addDrop(t) ==
    /\ component = "SilverMirrorReaction"
    /\ totalDrops(drops) < MaxDrops
    /\ IsZero(reactionProgress) \/ ~FLt(reactionProgress, Int110(100))
    /\ IF isCapped
       THEN renderMirror([mirrorState EXCEPT !.warning = "uncap"], flushed)
       ELSE renderMirror([mirrorState EXCEPT !.warning = "none", !.drops[t] = @ + 1], flushed)

handleReset ==
    /\ component = "SilverMirrorReaction"
    /\ renderMirror([drops |-> NoDrops, isCapped |-> FALSE, shakeSpeed |-> 0,
                     reactionProgress |-> Zero, warning |-> "none"], flushed)

\* onClick={() => setIsCapped(!isCapped)}
toggleCapped ==
    /\ component = "SilverMirrorReaction"
    /\ FLt(reactionProgress, Int110(1)) \/ FLt(Int110(99), reactionProgress)
    /\ renderMirror([mirrorState EXCEPT !.isCapped = ~isCapped], flushed)

\* onChange={(e) => setShakeSpeed(Number(e.target.value))}
setShakeSpeed(v) ==
    /\ component = "SilverMirrorReaction"
    /\ FLt(reactionProgress, Int110(1)) \/ FLt(Int110(99), reactionProgress)
    /\ v # shakeSpeed
    /\ renderMirror([mirrorState EXCEPT !.shakeSpeed = v], flushed)

\* setTime((prevTime) => prevTime + ANIMATION_SPEED)
advanceTime(prevTime) == FAdd(prevTime, ANIMATION_SPEED(component))

\* setProgress((prev) => { if (prev >= 1) return 1; return prev + ANIMATION_SPEED; })
advanceProgress(prev) ==
    IF ~FLt(prev, Int110(1)) THEN Int110(1) ELSE FAdd(prev, ANIMATION_SPEED(component))

\* const rate = (0.05 * shakeSpeed) / (totalDrops + 5)
\* 0.05 = 0x1.999999999999ap-5
rate(c) ==
    FDivInt(FMulInt(Dbl(FALSE, <<0, 0, 0, 6656, 13107, 26214, 19660, 1>>), c.shakeSpeed),
            c.totalDrops + 5)

\* setReactionProgress(prev => Math.min(prev + rate, 100))
\* Math.min left out
advanceReaction_noMin(prev, c) == FAdd(prev, rate(c))
advanceReaction(prev, c) == FMin(FAdd(prev, rate(c)), Int110(100))

\* the state updates that the silver mirror's animate queues; c holds the
\* values it closed over, m the state the updates are applied to
\* the branch that clears the warning left out
animateMirror_keepsWarning(m, c) ==
    [m EXCEPT !.warning = IF c.shakeSpeed > 0 /\ ~c.isCapped THEN "danger" ELSE @,
              !.shakeSpeed = IF c.shakeSpeed > 0 /\ ~c.isCapped THEN 0 ELSE @,
              !.reactionProgress = IF /\ c.canReact /\ c.isCapped /\ c.shakeSpeed > 0
                                      /\ FLt(c.reactionProgress, Int110(100))
                                   THEN advanceReaction(@, c) ELSE @]
\* isCapped left out of the condition of the reaction
animateMirror_ignoresCap(m, c) ==
    [m EXCEPT !.warning = IF c.shakeSpeed > 0 /\ ~c.isCapped THEN "danger"
                          ELSE IF c.warning # "none" /\ c.isCapped THEN "none"
                          ELSE @,
              !.shakeSpeed = IF c.shakeSpeed > 0 /\ ~c.isCapped THEN 0 ELSE @,
              !.reactionProgress = IF /\ c.canReact /\ c.shakeSpeed > 0
                                      /\ FLt(c.reactionProgress, Int110(100))
                                   THEN advanceReaction(@, c) ELSE @]
animateMirror(m, c) ==
    [m EXCEPT !.warning = IF c.shakeSpeed > 0 /\ ~c.isCapped THEN "danger"
                          ELSE IF c.warning # "none" /\ c.isCapped THEN "none"
                          ELSE @,
              !.shakeSpeed = IF c.shakeSpeed > 0 /\ ~c.isCapped THEN 0 ELSE @,
              !.reactionProgress = IF /\ c.canReact /\ c.isCapped /\ c.shakeSpeed > 0
                                      /\ FLt(c.reactionProgress, Int110(100))
                                   THEN advanceReaction(@, c) ELSE @]

\* The callbacks of one frame: each queues its updates and requests the
\* next frame for itself.  f is the state so far: the world and the state
\* with the updates applied.
RECURSIVE animate(_, _)
animate(f, running) ==
    IF running = {} THEN f
    ELSE LET cb   == CHOOSE cb \in running : \A other \in running : cb.id <= other.id
             rest == running \ {cb}
         IN  animate([w        |-> requestAnimationFrame(f.w, cb.animate, {o.id : o \in rest}),
                      time     |-> IF component \in Cells THEN advanceTime(f.time) ELSE f.time,
                      progress |-> IF component = "DisplacementReaction"
                                   THEN advanceProgress(f.progress) ELSE f.progress,
                      mirror   |-> IF component = "SilverMirrorReaction"
                                   THEN animateMirror(f.mirror, cb.animate) ELSE f.mirror],
                     rest)

\* A frame: the browser runs the callbacks that were pending when it began,
\* then the queued updates are rendered.
frame ==
    /\ pending # {}
    /\ component \in Cells => FLt(time, FMulInt(ANIMATION_SPEED(component), MaxTicks))
    /\ \E f \in {animate([w        |-> [pending |-> {}, requestRef |-> requestRef],
                            time     |-> time,
                            progress |-> progress,
                            mirror   |-> mirrorState],
                           pending)} :
       LET w == IF effectDue THEN runEffect(f.w) ELSE f.w
       IN  /\ time' = f.time
           /\ progress' = f.progress
           /\ drops' = f.mirror.drops
           /\ isCapped' = f.mirror.isCapped
           /\ shakeSpeed' = f.mirror.shakeSpeed
           /\ reactionProgress' = f.mirror.reactionProgress
           /\ warning' = f.mirror.warning
           /\ pending' = w.pending
           /\ requestRef' = w.requestRef
           /\ effectDue' = IF component = "SilverMirrorReaction"
                           THEN closure(f.mirror) # closure(mirrorState)
                           ELSE component = "DisplacementReaction" /\ f.progress # progress
    /\ UNCHANGED <<component, isPlaying>>
    /\ UNCHANGED <<titration, call, sampling>>

InitFrames ==
    /\ InitTitration /\ NoCall /\ NoSampling
    /\ \E c \in Cells \cup {"DisplacementReaction", "SilverMirrorReaction"} : Mounted(c)
    /\ effectDue = TRUE

NextFrames ==
    \/ flushEffects
    \/ togglePlaying
    \/ resetTime
    \/ resetProgress
    \/ \E t \in {"A", "B", "C", "D"} : addDrop(t)
    \/ handleReset
    \/ toggleCapped
    \/ \E v \in {0, 100} : setShakeSpeed(v)
    \/ frame

SpecFrames == InitFrames /\ [][NextFrames]_vars

\* ---------------------------------------------------------------------
\* Properties
\* ---------------------------------------------------------------------

site == ReturnSite(addedBaseVol, acidType, baseType)

\* C1: a change of the acid strength or of the base strength always yields
\* addedBaseVol = 0, whatever the volume was, and leaves the indicator and
\* the other strength as they were.
C1_StrengthChangeResetsVolume ==
    [][(acidType' # acidType \/ baseType' # baseType) =>
          /\ addedBaseVol' = Zero
          /\ indicator' = indicator
          /\ (acidType' # acidType => baseType' = baseType)
          /\ (baseType' # baseType => acidType' = acidType)]_vars

\* both strengths have been changed, after the indicator was
C1_Witness ==
    /\ acidType = "weak" /\ baseType = "weak"
    /\ indicator = "methylRed"
    /\ IsZero(addedBaseVol)

\* the number a sum lands on
LandOn(sum) == IF FLt(Fifty, sum) THEN Fifty ELSE IF FLt(sum, Zero) THEN Zero ELSE sum

VolumeInRange == ~FLt(addedBaseVol, Zero) /\ ~FLt(Fifty, addedBaseVol)

\* C2: after any sequence of fineClicks, resets, strength and indicator changes
\* addedBaseVol lies in [0, 50], and a step that would leave the range lands
\* exactly on the nearer bound.
C2_VolumeClamped ==
    /\ []VolumeInRange
    /\ [][(addedBaseVol' # addedBaseVol /\ ~IsZero(addedBaseVol')) =>
            \E amount \in Amounts : addedBaseVol' = LandOn(FAdd(addedBaseVol, amount))]_vars

\* 50 mL after one click of 0.1 or 1 among clicks of 5: no such sum is 50, so
\* the last click overshot and was clamped
C2_Witness == addedBaseVol = Fifty /\ fineClicks = 1

\* C3: every pH strictly below an indicator's rangeLow maps to that
\* indicator's colorLow.
C3_BelowRangeIsColorLow ==
    (color # "none" /\ NumLt(ph, INDICATORS[type].rangeLow)) =>
        color = INDICATORS[type].colorLow

TransitionColor ==
    [phenolphthalein |-> "#fbcfe8", methylRed |-> "#f97316", bromothymolBlue |-> "#22c55e"]

Palette ==
    {"#f1f5f9", "#f8fafc", "#ec4899", "#fbcfe8", "#ef4444", "#eab308", "#f97316",
     "#3b82f6", "#22c55e"}

\* C4: every pH with rangeLow <= pH <= rangeHigh, endpoints included, maps
\* to the indicator's one transition color, and every result is one of the
\* fixed colors.
C4_WithinRangeIsTransitionColor ==
    color # "none" =>
        /\ color \in Palette
        /\ (NumLe(INDICATORS[type].rangeLow, ph) /\ NumLe(ph, INDICATORS[type].rangeHigh)) =>
              color = TransitionColor[type]

\* phenolphthalein at its upper endpoint, pH 10.0
C4_Witness ==
    /\ type = "phenolphthalein" /\ ph = INDICATORS[type].rangeHigh
    /\ color = "#fbcfe8"

\* C5: every pH strictly above rangeHigh maps to the indicator's colorHigh.
C5_AboveRangeIsColorHigh ==
    (color # "none" /\ NumLt(INDICATORS[type].rangeHigh, ph)) =>
        color = INDICATORS[type].colorHigh

\* methyl red at pH 6.3
C5_Witness == type = "methylRed" /\ ph = Fin(6300) /\ color = "#eab308"

\* C6: for strong/strong, calculatePH is exactly 7.0 at every volume whose
\* moles of base are within 1e-9 of the moles of acid, on either side.
C6_NearEquivalenceIsSeven ==
    (acidType = "strong" /\ baseType = "strong" /\ isNear(molesB(addedBaseVol))) =>
        currentPH = Fin(7000)

\* C7: calculatePH never leaves by the final `return 7`.
C7_FallbackUnreachable == site # "L171"

\* a weak acid past equivalence: the three earlier returns were passed over
C7_Witness ==
    /\ acidType = "weak" /\ baseType = "weak"
    /\ isAbove(molesB(addedBaseVol)) /\ ~isNear(molesB(addedBaseVol))
    /\ site = "L167"

\* C8: the region guards are pairwise mutually exclusive.
C8_GuardsExclusive ==
    LET mB == molesB(addedBaseVol)
    IN  /\ ~(isBelow(mB) /\ isNear(mB))
        /\ ~(isNear(mB) /\ isAbove(mB))
        /\ ~(isBelow(mB) /\ isAbove(mB))

\* C9: the selected formula never takes the logarithm of zero or of a
\* negative number and never divides by zero.
C9_LogArgumentPositive ==
    LET at  == site
        arg == LogArg(at, addedBaseVol)
    IN  /\ arg.k = "pos"
        /\ ReturnValue(at, arg).k = "fin"

\* a weak acid at exactly 2.5 mmol of base: the equivalence formula is taken
C9_Witness ==
    /\ acidType = "weak" /\ baseType = "strong"
    /\ molesB(addedBaseVol) = molesA
    /\ site = "L108"

\* C10: for every pair but weak/weak, calculatePH does not decrease when
\* the volume does not.
C10_Monotone ==
    [][(/\ acidType' = acidType /\ baseType' = baseType
        /\ ~(acidType = "weak" /\ baseType = "weak")
        /\ ~FLt(addedBaseVol', addedBaseVol)) =>
          NumLe(calculatePH(addedBaseVol, acidType, baseType),
                calculatePH(addedBaseVol', acidType', baseType'))]_vars

\* C11: the sampled volumes are strictly increasing (none is emitted twice),
\* there are at most 300 of them, the first is exactly 0 and, when the sampler
\* has returned, the last is exactly 50.
C11_CurveSpansZeroToFifty ==
    LET p == sampler.points
        n == Len(p)
    IN  /\ n <= 300
        /\ \A i \in 1..(n - 1) : FLt(p[i].v, p[i + 1].v)
        /\ n > 0 => p[1].v = Zero
        /\ sampler.pc = "done" => (n > 0 /\ p[n].v = Fifty)

\* a finished run that went through the refined window
C11_Witness ==
    /\ sampler.pc = "done"
    /\ Len(sampler.points) = 113
    /\ acidType = "weak" /\ baseType = "strong"

\* 2^-20 mL, far above the rounding error of a sum of volumes
Tolerance == Dbl(FALSE, <<0, 0, 32, 0, 0, 0, 0, 0>>)
Near(x, y) == FLt(FAbs(FSub(x, y)), Tolerance)

\* C12: consecutive sample volumes that both lie in [24, 26] differ by 0.1,
\* all other consecutive sample volumes differ by 0.5.
C12_WindowRefined ==
    LET p == sampler.points
    IN  \A i \in 1..(Len(p) - 1) :
            LET d == FSub(p[i + 1].v, p[i].v)
            IN  IF ~FLt(p[i].v, TwentyFour) /\ ~FLt(TwentySix, p[i + 1].v)
                THEN Near(d, Tenth)
                ELSE Near(d, Half)

\* C13: at 25 mL added, calculatePH is strictly greater than 7 for a weak
\* acid with a strong base, strictly less than 7 for a strong acid with a
\* weak base, and exactly 7 for strong with strong.
C13_EquivalenceOrdering ==
    addedBaseVol = ACID_VOL_INITIAL =>
        /\ (acidType = "weak" /\ baseType = "strong") => NumLt(Fin(7000), currentPH)
        /\ (acidType = "strong" /\ baseType = "weak") => NumLt(currentPH, Fin(7000))
        /\ (acidType = "strong" /\ baseType = "strong") => currentPH = Fin(7000)

\* 25 mL of strong base in the weak acid
C13_Witness ==
    /\ addedBaseVol = ACID_VOL_INITIAL
    /\ acidType = "weak" /\ baseType = "strong"
    /\ site = "L108"

\* C14: in every reachable state the plotted curve is the sampled curve of
\* the current strengths: it is recomputed when a strength changes and left
\* as it is by volume steps, reset and indicator changes.  (The displayed pH
\* and colour are currentPH and currentColor, computed from the state in
\* every render.)
C14_CurveOfCurrentStrengths ==
    /\ graphPoints = sampleCurve(acidType, baseType)
    /\ Len(graphPoints) > 0

\* both strengths changed, then the volume and the indicator
C14_Witness ==
    /\ acidType = "weak" /\ baseType = "weak"
    /\ graphPoints # sampleCurve("strong", "strong")
    /\ ~IsZero(addedBaseVol)
    /\ indicator = "bromothymolBlue"

InRange(p) == NumLe(Fin(0), p) /\ NumLe(p, Fin(14000))

\* C16: the pH of every volume the buttons can reach and of every sampled
\* volume lies in [0, 14], for every pair of strengths.
C16_PHInRange ==
    /\ InRange(currentPH)
    /\ \A i \in 1..Len(graphPoints) : InRange(graphPoints[i].ph)

\* C17: for weak/weak, calculatePH at a volume is the weak-acid/strong-base
\* result at that volume while the moles of base are below the moles of acid
\* (the volume 0 included), is (pKa + pKaNH4) / 2 at equivalence (the moles
\* within 1e-9 of each other), and is the strong-acid/weak-base result at
\* that volume past equivalence.
C17_WeakWeakFollowsNeighbours ==
    (acidType = "weak" /\ baseType = "weak") =>
        LET mB == molesB(addedBaseVol)
        IN  /\ isBelow(mB) => currentPH = calculatePH(addedBaseVol, "weak", "strong")
            /\ (~isBelow(mB) /\ isNear(mB)) => currentPH = NumHalf(NumAdd(pKa, pKaNH4))
            /\ (~isBelow(mB) /\ ~isNear(mB)) =>
                  currentPH = calculatePH(addedBaseVol, "strong", "weak")

\* weak/weak at 50 mL, far past equivalence
C17_Witness ==
    /\ acidType = "weak" /\ baseType = "weak"
    /\ addedBaseVol = Fifty
    /\ currentPH = calculatePH(Fifty, "strong", "weak")

\* a pH within 0.005 of m / 1000
Approx(p, m) == p.k = "fin" /\ p.m - m \in -5..5

\* 14 - (-log10((5 - 2.5) / 75))
AtFifty ==
    NumSub(Fin(14000),
           NumNeg(Log10(LDiv(Lg(FSub(FMul(Fifty, Tenth), FMul(ACID_VOL_INITIAL, Tenth)), 110),
                             Lg(FAdd(ACID_VOL_INITIAL, Fifty), 55)))))

\* C18 as stated: for strong/strong, calculatePH at 50 mL is
\* 14 - (-log10((5 - 2.5) / 75)), approximately 12.60, and at 0 mL it is 1.0.
C18_AtFiftyIs1260 ==
    (acidType = "strong" /\ baseType = "strong") =>
        /\ addedBaseVol = Fifty => (currentPH = AtFifty /\ Approx(currentPH, 12600))
        /\ addedBaseVol = Zero => currentPH = Fin(1000)

\* C18: for strong/strong, calculatePH at 50 mL is
\* 14 - (-log10((5 - 2.5) / 75)), approximately 12.52, and at 0 mL it is 1.0.
C18_AtFiftyIs1252 ==
    (acidType = "strong" /\ baseType = "strong") =>
        /\ addedBaseVol = Fifty => (currentPH = AtFifty /\ Approx(currentPH, 12523))
        /\ addedBaseVol = Zero => currentPH = Fin(1000)

\* strong/strong with the burette emptied into the flask
C18_Witness ==
    /\ acidType = "strong" /\ baseType = "strong"
    /\ addedBaseVol = Fifty
    /\ site = "L82"

\* -log10(sqrt(1.8e-5 * 0.1))
AtZeroWeak == NumNeg(Log10(LSqrt(LMul(Lg(KA_ACETIC, 110), Lg(Tenth, 55)))))

\* C19 as stated: for a weak acid with a strong base, calculatePH at 0 mL is
\* -log10(sqrt(1.8e-5 * 0.1)), approximately 3.37.
C19_InitialWeakIs337 ==
    (acidType = "weak" /\ baseType = "strong" /\ addedBaseVol = Zero) =>
        (currentPH = AtZeroWeak /\ Approx(currentPH, 3370))

\* C19: for a weak acid with a strong base, calculatePH at 0 mL is
\* -log10(sqrt(1.8e-5 * 0.1)), approximately 2.87.
C19_InitialWeakIs287 ==
    (acidType = "weak" /\ baseType = "strong" /\ addedBaseVol = Zero) =>
        (currentPH = AtZeroWeak /\ Approx(currentPH, 2872))

\* the weak acid before any base is added
C19_Witness ==
    /\ acidType = "weak" /\ baseType = "strong"
    /\ addedBaseVol = Zero
    /\ site = "L91"

\* C20: in each animated component at most one animation frame callback is
\* pending at any time, whatever the order of clicks, effects and frames, and
\* no step advances time or progress by more than one increment.
C20_OneFramePending ==
    /\ [](Cardinality(pending) <= 1)
    /\ [][/\ time' \in {time, Zero, advanceTime(time)}
          /\ progress' \in {progress, Zero, advanceProgress(progress)}
          /\ reactionProgress' \in {reactionProgress, Zero}
                \cup {advanceReaction(reactionProgress, cb.animate) : cb \in pending}]_vars

\* the displacement reaction running: a frame has advanced progress, the
\* effect has run again and one callback is pending
C20_Witness ==
    /\ component = "DisplacementReaction"
    /\ isPlaying /\ ~effectDue
    /\ ~IsZero(progress)
    /\ Cardinality(pending) = 1

\* C21: in the galvanic and the electroplating cell time advances only while
\* isPlaying is true or the effect of the Pause click has not run yet; once
\* that effect has run no callback is pending, so time stays as it is until
\* Start is pressed; Reset sets time to 0, leaves isPlaying as it is and
\* leaves a playing animation with its frame callback.
C21_TimeAdvancesWhilePlaying ==
    /\ []((component \in Cells /\ ~isPlaying /\ ~effectDue) => pending = {})
    /\ [][(component \in Cells /\ time' # time /\ ~IsZero(time')) =>
            (/\ isPlaying \/ effectDue
             /\ time' = advanceTime(time)
             /\ isPlaying' = isPlaying)]_vars
    /\ [][(component \in Cells /\ time' # time /\ IsZero(time')) =>
            (/\ isPlaying' = isPlaying
             /\ isPlaying => (pending' # {} \/ effectDue'))]_vars

\* paused after some frames, the effect of the click has run
C21_Witness ==
    /\ component = "ElectroplatingCell"
    /\ ~isPlaying /\ ~effectDue
    /\ ~IsZero(time)
    /\ pending = {}

\* C22: in the displacement reaction progress lies in [0, 1] in every
\* reachable state.
C22_ProgressInUnitInterval ==
    component = "DisplacementReaction" =>
        ~FLt(progress, Zero) /\ ~FLt(Int110(1), progress)

\* C23: in the silver mirror every vial with A > 0 and B > 0 is cloudy
\* unless C >= 1.2 * A, and with C >= 1.2 * A its turbidity is 0 and it is
\* the clear complex.
C23_CloudyUntilAmmonia ==
    (component = "SilverMirrorReaction" /\ hasReactantsForPpt(drops)) =>
        IF FLt(Int110(drops.C), neededAmmonia(drops))
        THEN isCloudy(drops) /\ ~canReact(drops)
        ELSE IsZero(turbidity(drops)) /\ isClearComplex(drops)

\* C24: in the silver mirror reactionProgress increases in a frame only if
\* the values the frame's callback closed over are: capped, shakeSpeed > 0,
\* canReact and reactionProgress < 100; these are the values of the state
\* whenever the effect of the last render has run, and canReact implies
\* A > 0, B > 0, D > 0 and not cloudy.  A frame that finds shakeSpeed > 0
\* and the vial uncapped sets shakeSpeed to 0 and the danger warning and
\* leaves reactionProgress as it is.
C24_ReactionNeedsCapAndShake ==
    /\ []((component = "SilverMirrorReaction" /\ canReact(drops)) =>
            (drops.A > 0 /\ drops.B > 0 /\ drops.D > 0 /\ ~isCloudy(drops)))
    /\ []((component = "SilverMirrorReaction" /\ ~effectDue) =>
            pending = {[id |-> requestRef, animate |-> closure(mirrorState)]})
    /\ [][(component = "SilverMirrorReaction" /\ FLt(reactionProgress, reactionProgress')) =>
            (/\ \E cb \in pending :
                   /\ cb.animate.isCapped /\ cb.animate.shakeSpeed > 0 /\ cb.animate.canReact
                   /\ FLt(cb.animate.reactionProgress, Int110(100))
             /\ ~effectDue => (/\ isCapped /\ shakeSpeed > 0 /\ canReact(drops)
                               /\ FLt(reactionProgress, Int110(100))))]_vars
    /\ [][(/\ component = "SilverMirrorReaction" /\ ~effectDue
           /\ shakeSpeed > 0 /\ ~isCapped /\ frame) =>
            (shakeSpeed' = 0 /\ warning' = "danger" /\ reactionProgress' = reactionProgress)]_vars

\* the vial was shaken capped, then uncapped and shaken again
C24_Witness ==
    /\ component = "SilverMirrorReaction"
    /\ ~isCapped /\ shakeSpeed = 0 /\ warning = "danger"
    /\ FLt(Zero, reactionProgress) /\ FLt(reactionProgress, Int110(100))

\* C25: in the silver mirror reactionProgress lies in [0, 100]; a step that
\* lowers it is a Reset, which leaves no drops, the vial uncapped,
\* shakeSpeed 0, reactionProgress 0 and no warning; a step that adds a drop
\* leaves reactionProgress as it is.
C25_ReactionProgressBounded ==
    /\ [](component = "SilverMirrorReaction" =>
            (~FLt(reactionProgress, Zero) /\ ~FLt(Int110(100), reactionProgress)))
    /\ [][(component = "SilverMirrorReaction" /\ FLt(reactionProgress', reactionProgress)) =>
            (/\ drops' = NoDrops /\ ~isCapped' /\ shakeSpeed' = 0
             /\ IsZero(reactionProgress') /\ warning' = "none")]_vars
    /\ [][(component = "SilverMirrorReaction" /\ totalDrops(drops') > totalDrops(drops)) =>
            reactionProgress' = reactionProgress]_vars

\* a complete mirror in an open vial of four drops, shaken after the last
\* drop went in or topped up afterwards
C25_Witness ==
    /\ component = "SilverMirrorReaction"
    /\ reactionProgress = Int110(100)
    /\ ~isCapped /\ warning = "none"
    /\ totalDrops(drops) = 4

\* C26: in the silver mirror addDrop on a capped vial leaves the four drop
\* counts as they are and sets the 'uncap first' warning; addDrop on an
\* uncapped vial adds 1 to the count of the chosen reagent, leaves the other
\* three as they are and clears the warning.  No other step adds a drop or
\* sets that warning.
C26_AddDropNeedsOpenVial ==
    /\ [][\A t \in {"A", "B", "C", "D"} : addDrop(t) =>
              IF isCapped
              THEN drops' = drops /\ warning' = "uncap"
              ELSE /\ drops' = [drops EXCEPT ![t] = @ + 1]
                   /\ \A o \in {"A", "B", "C", "D"} \ {t} : drops'[o] = drops[o]
                   /\ warning' = "none"]_vars
    /\ [][(component = "SilverMirrorReaction" /\ drops' # drops /\ drops' # NoDrops) =>
            (/\ ~isCapped /\ isCapped' = isCapped /\ warning' = "none"
             /\ \E t \in {"A", "B", "C", "D"} : drops' = [drops EXCEPT ![t] = @ + 1])]_vars
    /\ [][(component = "SilverMirrorReaction" /\ warning' = "uncap" /\ warning # "uncap") =>
            (isCapped /\ drops' = drops)]_vars

\* a drop was refused after drops had gone in
C26_Witness ==
    /\ component = "SilverMirrorReaction"
    /\ isCapped /\ warning = "uncap"
    /\ drops.A = 1 /\ drops.C = 2

\* C27: in the silver mirror the danger warning stays until a drop is
\* added, Reset is pressed or a frame callback that closed over a capped
\* vial runs; and a frame whose callback closed over the rendered state of
\* a capped vial leaves no warning, the 'uncap first' warning of addDrop
\* included.
C27_WarningLifetime ==
    /\ [][(component = "SilverMirrorReaction" /\ warning = "danger" /\ warning' # "danger") =>
            (\/ handleReset
             \/ \E t \in {"A", "B", "C", "D"} : addDrop(t)
             \/ /\ frame
                /\ \E cb \in pending : cb.animate.isCapped
                /\ ~effectDue => isCapped)]_vars
    /\ [][(component = "SilverMirrorReaction" /\ isCapped /\ ~effectDue /\ frame) =>
            warning' = "none"]_vars

\* the danger warning is still shown on the vial that has just been capped
C27_Witness ==
    /\ component = "SilverMirrorReaction"
    /\ isCapped /\ ~effectDue
    /\ warning = "danger"

\* the region a return statement of calculatePH belongs to
RegionOfSite ==
    [L77 |-> "before", L79 |-> "equivalence", L82 |-> "after",
     L91 |-> "initial", L98 |-> "before", L108 |-> "equivalence", L114 |-> "after",
     L122 |-> "initial", L127 |-> "before", L136 |-> "equivalence", L145 |-> "after",
     L171 |-> "none"]

\* the region a return statement of getExplanation names
RegionOfExplanation(line) ==
    IF line = 276 THEN "none"
    ELSE CASE (line - 206) % 24 = 0  -> "initial"
           [] (line - 206) % 24 = 5  -> "before"
           [] (line - 206) % 24 = 10 -> "equivalence"
           [] (line - 206) % 24 = 15 -> "after"

\* C28: for every volume the buttons reach and every pair of strengths but
\* weak/weak, getExplanation names the region whose formula calculatePH
\* returned.  (For strong/strong at 0 mL, where calculatePH has no branch of
\* its own, the formula of the region before equivalence is [H+] = Ca.)
C28_ExplanationNamesFormula ==
    ~(acidType = "weak" /\ baseType = "weak") =>
        LET named == RegionOfExplanation(getExplanation(addedBaseVol, acidType, baseType))
            used  == RegionOfSite[site]
        IN  \/ named = used
            \/ /\ acidType = "strong" /\ baseType = "strong" /\ IsZero(addedBaseVol)
               /\ named = "initial" /\ used = "before"

\* the largest deformation of a cell
MaxDeformation == IF component = "GalvanicCell" THEN Int110(30) ELSE Int110(15)

\* C29: in the galvanic and the electroplating cell the deformation lies in
\* [0, 30] and [0, 15], it does not decrease when time does not, and the
\* width of the shrinking electrode is at least 10.
C29_DeformationBounded ==
    /\ [](component \in Cells =>
            /\ ~FLt(time, Zero)
            /\ ~FLt(deformation(component, time), Zero)
            /\ ~FLt(MaxDeformation, deformation(component, time))
            /\ ~FLt(anodeWidth(component, time), Int110(10)))
    /\ [][(component \in Cells /\ ~FLt(time', time)) =>
            ~FLt(deformation(component, time'), deformation(component, time))]_vars

\* the galvanic cell after more than 2 units of time: 15 * time is above 30
C29_Witness ==
    /\ component = "GalvanicCell"
    /\ FLt(Int110(2), time)
    /\ deformation(component, time) = Int110(30)
    /\ anodeWidth(component, time) = Int110(10)
====
